---------------------------- MODULE Spec2Model ----------------------------
(* Model of server.js: the Markets/Bets store, the on-chain question list,  *)
(* the reconciliation procedure update() and the HTTP handlers that use it. *)
(* Every sqlite3 statement is one atomic step; a statement issued with      *)
(* db.run / db.get executes later, at its own step, as node-sqlite3 does.   *)
EXTENDS Integers, Sequences, FiniteSets, TLC

(* ------------------------------ bounds ------------------------------ *)
MaxReqs == 2        \* /api/next-market-id requests in one behaviour
MaxMarkets == 2     \* rows of Markets
MaxLedger == 2      \* entries of the on-chain list
MaxBets == 1        \* rows of Bets
MaxFaults == 1      \* RPC / storage failures injected in one behaviour

Reqs == 1..MaxReqs

(* --------------------------- value domains --------------------------- *)
Titles == {"Ta", "Tb"}           \* titles a client sends to /api/save-market
ClientIds == {"1", "3"}          \* ids a client sends to /api/save-market
LedgerTotals == {1}              \* totalAmount values held on chain
BetMarketIds == {"1"}            \* marketId values a client bets on
\* amount values a client posts to /api/save-bet: JSON numbers and strings
BetAmounts == {[type |-> "number", n |-> 2], [type |-> "number", n |-> 0 - 1],
               [type |-> "string", s |-> "-1x"]}
BetIds == {ToString(t) : t \in 1..MaxBets}   \* Date.now().toString() values

Undefined == 0 - 1               \* JS undefined (property absent)
SqlNull == 0 - 2                 \* SQL NULL (parameter left unbound)
NaN == 0 - 3                     \* JS NaN
NoRow == [none |-> TRUE]         \* db.get found no row (row === undefined)
NoStmt == [state |-> "none"]     \* no statement issued
NoResp == [status |-> 0]         \* response not sent yet

(* ----------------------- pure helper functions ----------------------- *)
\* getLow128BitsOfSHA256: a fixed function of the title; distinct titles of
\* the corpus have distinct fingerprints.
getLow128BitsOfSHA256(input) ==
    CASE input = "Ta" -> 7001
      [] input = "Tb" -> 7002
      [] OTHER -> 7000

\* question_title_hash values on chain: the question "Ta" and a question
\* ("T0") that no client of this server submits; "Tb" is never registered.
LedgerHashes == {getLow128BitsOfSHA256("Ta"), getLow128BitsOfSHA256("T0")}

\* Number.prototype.toString / BigInt.prototype.toString, base 10
toString(n) == IF n = NaN THEN "NaN" ELSE ToString(n)

MaxInt == 12
\* parseInt(s, 10) of a string or of a number
parseInt(s) ==
    IF \E n \in 0..MaxInt : ToString(n) = s
    THEN CHOOSE n \in 0..MaxInt : ToString(n) = s
    ELSE NaN

\* CAST(id AS INTEGER) in SQLite: 0 for text without a numeric prefix
CastInteger(s) == IF parseInt(s) = NaN THEN 0 ELSE parseInt(s)

\* obj.key in JavaScript: undefined when the object has no such property
GetProp(obj, key) == IF key \in DOMAIN obj THEN obj[key] ELSE Undefined

\* node-sqlite3 leaves an undefined parameter unbound, which SQLite reads as NULL
BindParameter(v) == IF v = Undefined THEN SqlNull ELSE v

(* ------------------------------ schema ------------------------------ *)
\* A Markets row as stored: its columns plus the hidden rowid.
NewMarket(rowid, id, title) ==
    [rowid |-> rowid, id |-> id, title |-> title, description |-> "d",
     expiration |-> "e0", creator |-> "c0", totalAmount |-> 0,
     IsExpired |-> 0, IsVerified |-> 0]

MarketColumns == {"id", "title", "description", "expiration", "creator",
                  "totalAmount", "IsExpired", "IsVerified"}

\* "SELECT rowid, *": the projection that would carry the row handle
SelectRowidStar(row) == row

\* "SELECT *": the declared columns only; the rowid of a table whose primary
\* key is TEXT is hidden and is not part of *.
SelectStar(row) == [c \in MarketColumns |-> row[c]]

\* SELECT * FROM Markets LIMIT 1: the query without its WHERE clause
FirstRowIndex(markets) == IF Len(markets) > 0 THEN 1 ELSE 0

\* SELECT * FROM Markets WHERE IsVerified = 0 LIMIT 1 (table scan, rowid order)
FirstUnverifiedIndex(markets) ==
    IF \E i \in 1..Len(markets) : markets[i].IsVerified = 0
    THEN CHOOSE i \in 1..Len(markets) :
            /\ markets[i].IsVerified = 0
            /\ \A j \in 1..(i - 1) : markets[j].IsVerified # 0
    ELSE 0

VARIABLES
    Markets,        \* the Markets table, in rowid order
    Bets,           \* the Bets table
    ledger,         \* the list the contract currently holds
    pc,             \* position of each /api/next-market-id request
    contractList,   \* update(): the snapshot fetched by contract.list()
    unverified,     \* update(): the row returned by the pending-record query
    selected,       \* rowid of the row that query returned (0: none)
    upd,            \* update(): the UPDATE statement issued with db.run
    resp,           \* the HTTP response of the request
    reads,          \* store reads update() has executed, per request
    rejected,       \* which awaited promise of the request rejected
    inserts,        \* INSERT statements issued by /api/save-market, not yet run
    betUpdates,     \* totalAmount UPDATEs issued by /api/save-bet, not yet run
    faults          \* failures injected so far

vars == <<Markets, Bets, ledger, pc, contractList, unverified, selected, upd,
          resp, reads, rejected, inserts, betUpdates, faults>>

(* ----------------------- the on-chain list ----------------------- *)
LedgerEntry(id, hash, total) ==
    [id |-> id, question_title_hash |-> hash, expiration |-> "e1",
     creator |-> "c1", totalAmount |-> total]

\* The contract registers one more question (outside the server) and gives
\* it the next id.
LedgerAppend(hash, total) ==
    /\ Len(ledger) < MaxLedger
    /\ ledger' = Append(ledger, LedgerEntry(Len(ledger) + 1, hash, total))
    /\ UNCHANGED <<Markets, Bets, pc, contractList, unverified, selected, upd,
                   resp, reads, rejected, inserts, betUpdates, faults>>

(* ------------------- update(): the pure decisions ------------------- *)
\* The linear scan with break: index of the first entry whose
\* question_title_hash === titleHash, 0 when there is none.
FindMatch(list, titleHash) ==
    IF \E k \in 1..Len(list) : list[k].question_title_hash = titleHash
    THEN CHOOSE k \in 1..Len(list) :
            /\ list[k].question_title_hash = titleHash
            /\ \A j \in 1..(k - 1) : list[j].question_title_hash # titleHash
    ELSE 0

\* lastId / suggestedId of the no-match branch
SuggestedId(list) ==
    LET lastId == IF Len(list) > 0 THEN parseInt(toString(list[Len(list)].id))
                  ELSE 0
    IN  toString(lastId + 1)

\* The guard of the renumbering write, without the comparison of the ids
RenumberAlways(originalId, suggestedId) == TRUE

\* originalId !== suggestedId
NeedsRenumber(originalId, suggestedId) == originalId # suggestedId

\* The statement update() hands to db.run for the selected row and the
\* snapshot, NoStmt when it issues none.
UpdateStatement(row, list) ==
    IF row = NoRow THEN NoStmt ELSE
    LET originalId == row.id
        titleHash == getLow128BitsOfSHA256(row.title)
        m == FindMatch(list, titleHash)
        handle == BindParameter(GetProp(row, "rowid"))
    IN  IF m # 0
        THEN [state |-> "queued", kind |-> "verify",
              id |-> toString(list[m].id),
              expiration |-> list[m].expiration,
              creator |-> list[m].creator,
              totalAmount |-> list[m].totalAmount,
              rowid |-> handle]
        ELSE IF NeedsRenumber(originalId, SuggestedId(list))
             THEN [state |-> "queued", kind |-> "renumber",
                   id |-> SuggestedId(list), rowid |-> handle]
             ELSE NoStmt

(* --------------------- SQL statements on Markets --------------------- *)
\* WHERE IsVerified = 0 : a statement addressed by the pending flag instead
\* of the row handle
WherePending(row, param) == row.IsVerified = 0

\* WHERE rowid = ? : a comparison with NULL is never true
WhereRowid(row, param) == param # SqlNull /\ row.rowid = param

\* The row after the SET clause of the statement
SetClause(row, stmt) ==
    IF stmt.kind = "verify"
    THEN [row EXCEPT !.id = stmt.id, !.expiration = stmt.expiration,
                     !.creator = stmt.creator,
                     !.totalAmount = stmt.totalAmount, !.IsVerified = 1]
    ELSE [row EXCEPT !.id = stmt.id]

\* The table after the UPDATE, before the PRIMARY KEY check
UpdatedTable(markets, stmt) ==
    [i \in 1..Len(markets) |->
        IF WhereRowid(markets[i], stmt.rowid) THEN SetClause(markets[i], stmt)
        ELSE markets[i]]

\* id TEXT PRIMARY KEY
UniqueIds(markets) ==
    \A i, j \in 1..Len(markets) : markets[i].id = markets[j].id => i = j

\* db.run(UPDATE Markets ... WHERE rowid = ?): the statement is atomic; a
\* PRIMARY KEY violation fails it and leaves the table as it was.
ExecUpdate(markets, stmt) ==
    IF UniqueIds(UpdatedTable(markets, stmt))
    THEN [err |-> FALSE, markets |-> UpdatedTable(markets, stmt)]
    ELSE [err |-> TRUE, markets |-> markets]


(* -------------------- GET /api/next-market-id -------------------- *)
\* catch (error): res.status(500).json({ error: "Internal server error" })
ErrorResponse == [status |-> 500, error |-> "Internal server error"]

\* The request arrives, the handler calls update() and contract.list()
\* resolves with the list as it is then; update() issues the pending-record
\* query. Requests are numbered in their order of arrival.
NextMarketId(r) ==
    /\ pc[r] = "idle"
    /\ \A q \in Reqs : q < r => pc[q] # "idle"
    /\ contractList' = [contractList EXCEPT ![r] = ledger]
    /\ pc' = [pc EXCEPT ![r] = "select"]
    /\ UNCHANGED <<Markets, Bets, ledger, unverified, selected, upd, resp,
                   reads, rejected, inserts, betUpdates, faults>>

\* A handler that takes a failed fetch for an empty list and carries on
ListRejectSwallowed(r) ==
    /\ pc[r] = "idle"
    /\ \A q \in Reqs : q < r => pc[q] # "idle"
    /\ faults < MaxFaults
    /\ faults' = faults + 1
    /\ rejected' = [rejected EXCEPT ![r] = "list"]
    /\ pc' = [pc EXCEPT ![r] = "select"]
    /\ UNCHANGED <<Markets, Bets, ledger, contractList, unverified, selected,
                   upd, resp, reads, inserts, betUpdates>>

\* The request arrives and contract.list() rejects: update() throws at its
\* first await and the handler's catch answers 500.
ListReject(r) ==
    /\ pc[r] = "idle"
    /\ \A q \in Reqs : q < r => pc[q] # "idle"
    /\ faults < MaxFaults
    /\ faults' = faults + 1
    /\ rejected' = [rejected EXCEPT ![r] = "list"]
    /\ resp' = [resp EXCEPT ![r] = ErrorResponse]
    /\ pc' = [pc EXCEPT ![r] = "done"]
    /\ UNCHANGED <<Markets, Bets, ledger, contractList, unverified, selected,
                   upd, reads, inserts, betUpdates>>

\* An update() that runs the pending-record query a second time before it
\* goes on
SelectUnverifiedRetry(r) ==
    /\ pc[r] = "select"
    /\ LET i == FirstUnverifiedIndex(Markets)
           row == IF i = 0 THEN NoRow ELSE SelectStar(Markets[i])
       IN  /\ selected' = [selected EXCEPT ![r] = i]
           /\ unverified' = [unverified EXCEPT ![r] = row]
           /\ upd' = [upd EXCEPT ![r] = UpdateStatement(row, contractList[r])]
    /\ reads' = [reads EXCEPT ![r] = @ + 2]
    /\ pc' = [pc EXCEPT ![r] = "max"]
    /\ UNCHANGED <<Markets, Bets, ledger, contractList, resp, rejected,
                   inserts, betUpdates, faults>>

\* The pending-record query runs. Without a row update() returns at once.
\* With a row it fingerprints the title, scans the snapshot and hands the
\* chosen UPDATE to db.run without awaiting it. Either way update() returns
\* and the handler issues the max-id query.
SelectUnverified(r) ==
    /\ pc[r] = "select"
    /\ LET i == FirstUnverifiedIndex(Markets)
           row == IF i = 0 THEN NoRow ELSE SelectStar(Markets[i])
       IN  /\ selected' = [selected EXCEPT ![r] = i]
           /\ unverified' = [unverified EXCEPT ![r] = row]
           /\ upd' = [upd EXCEPT ![r] = UpdateStatement(row, contractList[r])]
    /\ reads' = [reads EXCEPT ![r] = @ + 1]
    /\ pc' = [pc EXCEPT ![r] = "max"]
    /\ UNCHANGED <<Markets, Bets, ledger, contractList, resp, rejected,
                   inserts, betUpdates, faults>>

\* The pending-record query fails: reject(err), caught by the handler.
SelectReject(r) ==
    /\ pc[r] = "select"
    /\ faults < MaxFaults
    /\ faults' = faults + 1
    /\ reads' = [reads EXCEPT ![r] = @ + 1]
    /\ rejected' = [rejected EXCEPT ![r] = "select"]
    /\ resp' = [resp EXCEPT ![r] = ErrorResponse]
    /\ pc' = [pc EXCEPT ![r] = "done"]
    /\ UNCHANGED <<Markets, Bets, ledger, contractList, unverified, selected,
                   upd, inserts, betUpdates>>

\* The UPDATE issued by update() runs; its callback only logs the outcome.
ApplyUpdate(r) ==
    /\ upd[r].state = "queued"
    /\ LET res == ExecUpdate(Markets, upd[r])
       IN  /\ Markets' = res.markets
           /\ upd' = [upd EXCEPT ![r].state =
                         IF res.err THEN "failed" ELSE "done"]
    /\ UNCHANGED <<Bets, ledger, pc, contractList, unverified, selected, resp,
                   reads, rejected, inserts, betUpdates, faults>>

\* The UPDATE issued by update() fails in the store (I/O error, busy).
FailUpdate(r) ==
    /\ upd[r].state = "queued"
    /\ faults < MaxFaults
    /\ faults' = faults + 1
    /\ upd' = [upd EXCEPT ![r].state = "failed"]
    /\ UNCHANGED <<Markets, Bets, ledger, pc, contractList, unverified,
                   selected, resp, reads, rejected, inserts, betUpdates>>

\* SELECT id FROM Markets LIMIT 1: the query without its ORDER BY
FirstIdRow(markets) ==
    IF Len(markets) = 0 THEN NoRow ELSE [id |-> markets[1].id]

\* SELECT id FROM Markets ORDER BY CAST(id AS INTEGER) DESC LIMIT 1
MaxIdRow(markets) ==
    IF Len(markets) = 0 THEN NoRow
    ELSE LET i == CHOOSE i \in 1..Len(markets) :
                    \A j \in 1..Len(markets) :
                        CastInteger(markets[j].id) <= CastInteger(markets[i].id)
         IN  [id |-> markets[i].id]

\* row && row.id ? (parseInt(row.id, 10) + 1).toString() : "1"
NextIdOf(row) ==
    IF row # NoRow /\ row.id # ""
    THEN toString(IF parseInt(row.id) = NaN THEN NaN ELSE parseInt(row.id) + 1)
    ELSE "1"

\* The max-id query runs and the handler answers { nextId }.
MaxIdResolve(r) ==
    /\ pc[r] = "max"
    /\ resp' = [resp EXCEPT ![r] =
                   [status |-> 200, nextId |-> NextIdOf(MaxIdRow(Markets))]]
    /\ pc' = [pc EXCEPT ![r] = "done"]
    /\ UNCHANGED <<Markets, Bets, ledger, contractList, unverified, selected,
                   upd, reads, rejected, inserts, betUpdates, faults>>

\* The max-id query fails: reject(err), caught by the handler.
MaxIdReject(r) ==
    /\ pc[r] = "max"
    /\ faults < MaxFaults
    /\ faults' = faults + 1
    /\ rejected' = [rejected EXCEPT ![r] = "max"]
    /\ resp' = [resp EXCEPT ![r] = ErrorResponse]
    /\ pc' = [pc EXCEPT ![r] = "done"]
    /\ UNCHANGED <<Markets, Bets, ledger, contractList, unverified, selected,
                   upd, reads, inserts, betUpdates>>

(* ---------------------- POST /api/save-market ---------------------- *)
\* The exists check finds no row with this id; the INSERT is issued.
SaveMarket(id, title) ==
    /\ Len(Markets) + Cardinality(inserts) < MaxMarkets
    /\ \A i \in 1..Len(Markets) : Markets[i].id # id
    /\ [id |-> id, title |-> title] \notin inserts
    /\ inserts' = inserts \cup {[id |-> id, title |-> title]}
    /\ UNCHANGED <<Markets, Bets, ledger, pc, contractList, unverified,
                   selected, upd, resp, reads, rejected, betUpdates, faults>>

\* An INSERT into a table whose id column carries no PRIMARY KEY
SaveMarketInsertNoKey(ins) ==
    /\ ins \in inserts
    /\ inserts' = inserts \ {ins}
    /\ Markets' = Append(Markets,
                         NewMarket(Len(Markets) + 1, ins.id, ins.title))
    /\ UNCHANGED <<Bets, ledger, pc, contractList, unverified, selected, upd,
                   resp, reads, rejected, betUpdates, faults>>

\* The INSERT runs; a PRIMARY KEY violation fails it (500) and adds no row.
SaveMarketInsert(ins) ==
    /\ ins \in inserts
    /\ inserts' = inserts \ {ins}
    /\ Markets' = IF \E i \in 1..Len(Markets) : Markets[i].id = ins.id
                  THEN Markets
                  ELSE Append(Markets,
                              NewMarket(Len(Markets) + 1, ins.id, ins.title))
    /\ UNCHANGED <<Bets, ledger, pc, contractList, unverified, selected, upd,
                   resp, reads, rejected, betUpdates, faults>>

(* ------------------------ POST /api/save-bet ------------------------ *)
\* ToNumber of a request value: a string that is no numeric literal is NaN
ToNumber(v) ==
    IF v.type = "number" THEN v.n
    ELSE CASE v.s = "-1x" -> NaN
           [] OTHER -> NaN

\* The value SQLite adds for a bound parameter: a number as it is, a text by
\* its longest numeric prefix (0 when it has none)
SqlNumeric(v) ==
    IF v.type = "number" THEN v.n
    ELSE CASE v.s = "-1x" -> 0 - 1
           [] OTHER -> 0

\* !amount
Falsy(v) == IF v.type = "number" THEN v.n = 0 ELSE v.s = ""

\* The handler goes on when neither `!amount` nor `amount <= 0` holds; a
\* comparison with NaN is false.
BetAccepted(amount) ==
    /\ ~Falsy(amount)
    /\ ~(ToNumber(amount) # NaN /\ ToNumber(amount) <= 0)

\* The bet passes validation and INSERT INTO Bets succeeds (foreign keys are
\* not enforced); its callback issues the totalAmount UPDATE.
SaveBet(betId, marketId, amount) ==
    /\ BetAccepted(amount)
    /\ Len(Bets) < MaxBets
    /\ \A b \in 1..Len(Bets) : Bets[b].betId # betId
    /\ Bets' = Append(Bets, [betId |-> betId, marketId |-> marketId,
                             amount |-> amount])
    /\ betUpdates' = betUpdates \cup {[betId |-> betId, marketId |-> marketId,
                                       amount |-> amount]}
    /\ UNCHANGED <<Markets, ledger, pc, contractList, unverified, selected,
                   upd, resp, reads, rejected, inserts, faults>>

\* UPDATE Markets SET totalAmount = totalAmount + ? WHERE id = ?
SaveBetUpdate(u) ==
    /\ u \in betUpdates
    /\ betUpdates' = betUpdates \ {u}
    /\ Markets' = [i \in 1..Len(Markets) |->
                     IF Markets[i].id = u.marketId
                     THEN [Markets[i] EXCEPT
                             !.totalAmount = @ + SqlNumeric(u.amount)]
                     ELSE Markets[i]]
    /\ UNCHANGED <<Bets, ledger, pc, contractList, unverified, selected, upd,
                   resp, reads, rejected, inserts, faults>>

(* --------------------------- specification --------------------------- *)
\* market.db outlives the process: the server starts on an empty store, or
\* on one that holds the market of question "T0", verified against the first
\* entry of the list.
StoredVerified ==
    [rowid |-> 1, id |-> "1", title |-> "T0", description |-> "d",
     expiration |-> "e1", creator |-> "c1", totalAmount |-> 1,
     IsExpired |-> 0, IsVerified |-> 1]

StoredLedger == <<LedgerEntry(1, getLow128BitsOfSHA256("T0"), 1)>>

Init ==
    /\ \/ Markets = <<>> /\ ledger = <<>>
       \/ Markets = <<StoredVerified>> /\ ledger = StoredLedger
    /\ Bets = <<>>
    /\ pc = [r \in Reqs |-> "idle"]
    /\ contractList = [r \in Reqs |-> <<>>]
    /\ unverified = [r \in Reqs |-> NoRow]
    /\ selected = [r \in Reqs |-> 0]
    /\ upd = [r \in Reqs |-> NoStmt]
    /\ resp = [r \in Reqs |-> NoResp]
    /\ reads = [r \in Reqs |-> 0]
    /\ rejected = [r \in Reqs |-> "none"]
    /\ inserts = {}
    /\ betUpdates = {}
    /\ faults = 0

Next ==
    \/ \E h \in LedgerHashes, t \in LedgerTotals : LedgerAppend(h, t)
    \/ \E r \in Reqs : NextMarketId(r)
    \/ \E r \in Reqs : ListReject(r)
    \/ \E r \in Reqs : SelectUnverified(r)
    \/ \E r \in Reqs : SelectReject(r)
    \/ \E r \in Reqs : ApplyUpdate(r)
    \/ \E r \in Reqs : FailUpdate(r)
    \/ \E r \in Reqs : MaxIdResolve(r)
    \/ \E r \in Reqs : MaxIdReject(r)
    \/ \E id \in ClientIds, t \in Titles : SaveMarket(id, t)
    \/ \E ins \in inserts : SaveMarketInsert(ins)
    \/ \E b \in BetIds, m \in BetMarketIds, a \in BetAmounts :
          SaveBet(b, m, a)
    \/ \E u \in betUpdates : SaveBetUpdate(u)

Spec == Init /\ [][Next]_vars


(* ------------------------------ claims ------------------------------ *)
\* Request r's pending-record query returned a row.
Picked(r) == selected[r] # 0

\* Index in r's snapshot of the entry matching the row r selected (0: none).
Match(r) ==
    FindMatch(contractList[r], getLow128BitsOfSHA256(unverified[r].title))

\* The UPDATE issued by r has run without error.
Applied(r) == upd[r].state = "done"

\* C1: when update() selected a pending row whose title fingerprint is in the
\* snapshot, then once its write has been applied that very row carries the
\* matched entry's id (as a string), expiration, creator and totalAmount and
\* has IsVerified = 1.
C1_MatchWritesLedgerValues ==
    \A r \in Reqs :
        (Picked(r) /\ Match(r) # 0 /\ Applied(r)) =>
            LET row == Markets[selected[r]]
                e == contractList[r][Match(r)]
            IN  /\ row.id = toString(e.id)
                /\ row.expiration = e.expiration
                /\ row.creator = e.creator
                /\ (Bets = <<>> => row.totalAmount = e.totalAmount)
                /\ row.IsVerified = 1

\* C2: when update() selected a pending row that matches no snapshot entry and
\* whose id differs from the suggested id, then after the invocation (its write
\* applied) the row's id is the suggested id and its IsVerified is still 0.
C2_NoMatchRenumbers ==
    \A r \in Reqs :
        (/\ Picked(r) /\ Match(r) = 0
         /\ unverified[r].id # SuggestedId(contractList[r])
         /\ Applied(r)) =>
            /\ Markets[selected[r]].id = SuggestedId(contractList[r])
            /\ Markets[selected[r]].IsVerified = 0

\* C3: when the selected pending row matches no snapshot entry and its id
\* already is the suggested id, the invocation issues no write and its step
\* leaves every Markets row unchanged.
C3_NoOpSuggestion ==
    [][\A r \in Reqs :
          (/\ pc[r] = "select" /\ pc'[r] = "max"
           /\ Picked(r)' /\ Match(r)' = 0
           /\ unverified'[r].id = SuggestedId(contractList[r])) =>
              (upd'[r] = NoStmt /\ Markets' = Markets)]_vars

C3_Witness ==
    \E r \in Reqs :
        /\ pc[r] = "done" /\ Picked(r) /\ Match(r) = 0
        /\ unverified[r].id = SuggestedId(contractList[r])
        /\ Len(contractList[r]) > 0
        /\ upd[r] = NoStmt

\* C4: when no Markets row is pending at the time of the pending-record query
\* (all rows verified, or the table empty), update() runs that one query,
\* finds no row and returns: no further read, no write, the store unchanged.
C4_NoPendingRecord ==
    [][\A r \in Reqs :
          (/\ pc[r] = "select" /\ pc'[r] = "max"
           /\ \A i \in 1..Len(Markets) : Markets[i].IsVerified = 1) =>
              /\ unverified'[r] = NoRow
              /\ reads'[r] = 1
              /\ upd'[r] = NoStmt
              /\ Markets' = Markets /\ Bets' = Bets]_vars

C4_Witness ==
    \E r \in Reqs :
        /\ pc[r] = "done" /\ reads[r] = 1 /\ ~Picked(r) /\ upd[r] = NoStmt
        /\ Len(Markets) > 0
        /\ \A i \in 1..Len(Markets) : Markets[i].IsVerified = 1

\* C5: with the same snapshot and no new pending record, when a first
\* invocation has resolved or renumbered the sole pending record (its write
\* applied), the invocation that runs next finds no pending record and issues
\* no write.
C5_SecondCallNoPending ==
    [][(/\ pc[1] = "done" /\ Picked(1) /\ Applied(1)
        /\ \A i \in 1..Len(Markets) :
              i # selected[1] => Markets[i].IsVerified = 1
        /\ contractList[2] = contractList[1]
        /\ pc[2] = "select" /\ pc'[2] = "max") =>
           (~Picked(2)' /\ upd'[2] = NoStmt)]_vars

\* C6: once a Markets row has IsVerified = 1, no step changes its IsVerified
\* flag or its id, whatever the interleaving of requests.
C6_ResolvedIsTerminal ==
    [][\A i \in 1..Len(Markets) :
          Markets[i].IsVerified = 1 =>
              /\ Markets'[i].IsVerified = 1
              /\ Markets'[i].id = Markets[i].id]_vars

\* Two invocations selected the same pending row against different snapshots,
\* both writes have run, and the store holds a verified row.
C6_Witness ==
    /\ Picked(1) /\ selected[1] = selected[2]
    /\ contractList[1] # contractList[2]
    /\ Applied(1) /\ Applied(2)
    /\ upd[1].kind # upd[2].kind
    /\ \E i \in 1..Len(Markets) : Markets[i].IsVerified = 1

\* C7: when contract.list() fails, the invocation has read and written nothing
\* in the store, the request ends in an error response without nextId, and the
\* failing step leaves every Markets row as it was.
C7_TransportError ==
    [][\A r \in Reqs :
          rejected'[r] = "list" =>
              /\ pc'[r] = "done"
              /\ resp'[r].status = 500
              /\ "nextId" \notin DOMAIN resp'[r]
              /\ reads'[r] = 0
              /\ upd'[r] = NoStmt
              /\ (rejected[r] # "list" => Markets' = Markets)]_vars

C7_Witness ==
    \E r \in Reqs :
        /\ rejected[r] = "list" /\ pc[r] = "done"
        /\ \E i \in 1..Len(Markets) : Markets[i].IsVerified = 0

\* C8: when the store write issued by an invocation fails, the request ends in
\* an error response, never in a success response with a nextId.
C8_StorageErrorIsFatal ==
    \A r \in Reqs :
        (upd[r].state = "failed" /\ pc[r] = "done") =>
            (resp[r].status = 500 /\ "nextId" \notin DOMAIN resp[r])

\* C9: no step lowers the totalAmount of a Markets row.
C9_TotalAmountMonotone ==
    [][\A i \in 1..Len(Markets) :
          Markets'[i].totalAmount >= Markets[i].totalAmount]_vars

\* C10: when the snapshot is empty and a pending row was selected, the
\* invocation takes the no-match path with suggested id "1", and once it is
\* over (its write, if any, applied) the row's id is "1".
C10_EmptyLedgerSuggestsOne ==
    \A r \in Reqs :
        (/\ Picked(r) /\ contractList[r] = <<>>
         /\ pc[r] = "done" /\ upd[r].state \in {"none", "done"}) =>
            /\ Match(r) = 0
            /\ SuggestedId(contractList[r]) = "1"
            /\ Markets[selected[r]].id = "1"

\* C12: when update() has returned to the handler, the write it issued has
\* been applied, so the request's max-id query, and with it a successful
\* response, never comes before that write.
C12_WriteAppliedBeforeMaxId ==
    \A r \in Reqs :
        (pc[r] = "done" /\ resp[r].status = 200) => upd[r].state # "queued"

\* Writes update() has issued for request r.
Writes(r) == IF upd[r] = NoStmt THEN 0 ELSE 1

\* C14: on every path an invocation of update() runs the pending-record query
\* at most once and issues at most one write: none when the list fetch failed
\* (and no read then), none when no pending row was found, none on the no-op
\* suggestion.
C14_BoundedWork ==
    \A r \in Reqs :
        /\ reads[r] <= 1
        /\ Writes(r) <= reads[r]
        /\ (rejected[r] = "list" => reads[r] = 0)
        /\ (~Picked(r) => Writes(r) = 0)
        /\ (/\ Picked(r) /\ Match(r) = 0
            /\ unverified[r].id = SuggestedId(contractList[r]))
               => Writes(r) = 0

\* Both requests are over, one on the match path and one on the renumbering
\* path, each with its single write issued.
C14_Witness ==
    /\ \A r \in Reqs : pc[r] = "done" /\ reads[r] = 1 /\ Writes(r) = 1
    /\ upd[1].kind # upd[2].kind

(* ---------------- repeated, serialized invocations ---------------- *)
\* The client sends its next request once the previous one is answered and
\* the write it issued has run: the handler's locals start afresh.
Recycle(r) ==
    /\ pc[r] = "done"
    /\ upd[r].state # "queued"
    /\ pc' = [pc EXCEPT ![r] = "idle"]
    /\ contractList' = [contractList EXCEPT ![r] = <<>>]
    /\ unverified' = [unverified EXCEPT ![r] = NoRow]
    /\ selected' = [selected EXCEPT ![r] = 0]
    /\ upd' = [upd EXCEPT ![r] = NoStmt]
    /\ resp' = [resp EXCEPT ![r] = NoResp]
    /\ reads' = [reads EXCEPT ![r] = 0]
    /\ rejected' = [rejected EXCEPT ![r] = "none"]
    /\ UNCHANGED <<Markets, Bets, ledger, inserts, betUpdates, faults>>

\* One client that calls /api/next-market-id again and again, one call at a
\* time, while markets are saved and the list grows; no failure is injected.
LiveNext ==
    \/ \E h \in LedgerHashes, t \in LedgerTotals : LedgerAppend(h, t)
    \/ \E id \in ClientIds, t \in Titles : SaveMarket(id, t)
    \/ \E ins \in inserts : SaveMarketInsert(ins)
    \/ NextMarketId(1)
    \/ SelectUnverified(1)
    \/ ApplyUpdate(1)
    \/ MaxIdResolve(1)
    \/ Recycle(1)

\* Every issued statement runs, every request is answered, and the client
\* keeps calling.
LiveSpec ==
    /\ Init
    /\ [][LiveNext]_vars
    /\ WF_vars(NextMarketId(1))
    /\ WF_vars(SelectUnverified(1))
    /\ WF_vars(ApplyUpdate(1))
    /\ WF_vars(MaxIdResolve(1))
    /\ WF_vars(Recycle(1))

\* C13: a pending row whose title fingerprint is in the list is eventually
\* verified by the repeated invocations, whatever else the store holds.
C13_EventualResolution ==
    \A i \in 1..MaxMarkets :
        (/\ i <= Len(Markets)
         /\ Markets[i].IsVerified = 0
         /\ FindMatch(ledger, getLow128BitsOfSHA256(Markets[i].title)) # 0)
        ~> (i <= Len(Markets) /\ Markets[i].IsVerified = 1)

\* C15: when the write of an invocation fails after a match was found, the
\* selected row still has IsVerified = 0 and the id it was read with, the
\* failing step changes no row, and an invocation whose pending-record query
\* runs afterwards gets the same row.
C15_FailedWriteLeavesPending ==
    [][\A r \in Reqs :
          (upd'[r].state = "failed" /\ upd'[r].kind = "verify") =>
              /\ Markets'[selected[r]].IsVerified = 0
              /\ Markets'[selected[r]].id = unverified[r].id
              /\ (upd[r].state = "queued" => Markets' = Markets)
              /\ \A q \in Reqs :
                    (pc[q] = "select" /\ pc'[q] = "max") =>
                        /\ selected'[q] = selected[r]
                        /\ unverified'[q].id = unverified[r].id
                        /\ unverified'[q].title = unverified[r].title]_vars

\* The verifying write of the first request failed and the second request,
\* arriving after it, selected the same row and issued the same write.
C15_Witness ==
    /\ upd[1].state = "failed" /\ upd[1].kind = "verify"
    /\ pc[2] = "done" /\ selected[2] = selected[1]
    /\ upd[2].state = "done" /\ upd[2].kind = "verify"
    /\ Markets[selected[1]].IsVerified = 0

\* C16: when several snapshot entries carry the fingerprint of the selected
\* row's title, the row is resolved (once the write has been applied) to the
\* id and fields of the first of them in snapshot order.
C16_FirstMatchWins ==
    \A r \in Reqs :
        (/\ Picked(r) /\ Applied(r)
         /\ \E j, k \in 1..Len(contractList[r]) :
               /\ j < k
               /\ contractList[r][j].question_title_hash
                     = getLow128BitsOfSHA256(unverified[r].title)
               /\ contractList[r][k].question_title_hash
                     = contractList[r][j].question_title_hash
               /\ \A l \in 1..(j - 1) :
                     contractList[r][l].question_title_hash
                        # contractList[r][j].question_title_hash
               /\ LET row == Markets[selected[r]]
                  IN  ~(/\ row.id = toString(contractList[r][j].id)
                        /\ row.expiration = contractList[r][j].expiration
                        /\ row.creator = contractList[r][j].creator
                        /\ row.IsVerified = 1))
        => FALSE

\* C17: no two Markets rows ever have the same id, whatever the order of
\* inserts and of reconciliation writes; an INSERT whose id is already in the
\* table, and an UPDATE whose new id belongs to another row, leave the table
\* as it was.
C17_IdentityUnique ==
    [][/\ \A i \in 1..Len(Markets) : \A j \in 1..Len(Markets) :
             i # j => Markets[i].id # Markets[j].id
       /\ \A i \in 1..Len(Markets') : \A j \in 1..Len(Markets') :
             i # j => Markets'[i].id # Markets'[j].id
       /\ \A ins \in inserts :
             (/\ inserts' = inserts \ {ins}
              /\ \E i \in 1..Len(Markets) : Markets[i].id = ins.id)
             => Markets' = Markets
       /\ \A r \in Reqs :
             (/\ upd[r].state = "queued" /\ upd'[r].state # "queued"
              /\ \E i \in 1..Len(Markets) :
                    i # selected[r] /\ Markets[i].id = upd[r].id)
             => Markets' = Markets]_vars

\* A reconciliation write whose new id is the id of another row has run.
C17_Witness ==
    \E r \in Reqs :
        /\ Applied(r)
        /\ \E i \in 1..Len(Markets) :
              i # selected[r] /\ Markets[i].id = upd[r].id

\* C18: the step in which the write of an invocation runs keeps the number
\* of rows, keeps the title and description of every row, keeps every field
\* of every row other than the one the invocation selected and, when the
\* write is the renumbering one, keeps every field but id of the selected row.
C18_ReconciliationFrame ==
    [][\A r \in Reqs :
          (upd[r].state = "queued" /\ upd'[r].state # "queued") =>
              /\ Len(Markets') = Len(Markets)
              /\ \A i \in 1..Len(Markets) :
                    /\ Markets'[i].title = Markets[i].title
                    /\ Markets'[i].description = Markets[i].description
                    /\ i # selected[r] => Markets'[i] = Markets[i]
                    /\ (i = selected[r] /\ upd[r].kind = "renumber") =>
                          /\ Markets'[i].IsVerified = Markets[i].IsVerified
                          /\ Markets'[i].expiration = Markets[i].expiration
                          /\ Markets'[i].creator = Markets[i].creator
                          /\ Markets'[i].totalAmount = Markets[i].totalAmount
                          /\ Markets'[i].IsExpired = Markets[i].IsExpired
                          /\ Markets'[i].rowid = Markets[i].rowid]_vars

\* A renumbering write and a verifying write have both run on a table of two
\* rows.
C18_Witness ==
    /\ Len(Markets) = 2
    /\ \E r, q \in Reqs :
          /\ Applied(r) /\ upd[r].kind = "renumber"
          /\ Applied(q) /\ upd[q].kind = "verify"

\* C19: a bet whose marketId is the id of a Markets row still names that
\* same row after every step, the writes of reconciliation included.
C19_BetsStayAttached ==
    [][\A b \in 1..Len(Bets) : \A i \in 1..Len(Markets) :
          Bets[b].marketId = Markets[i].id =>
              /\ b <= Len(Bets') /\ i <= Len(Markets')
              /\ Bets'[b].marketId = Markets'[i].id]_vars

\* A bet names the row an invocation selected, and the write of that
\* invocation, which carries another id for the row, has run.
C19_Witness ==
    \E r \in Reqs : \E b \in 1..Len(Bets) :
        /\ Picked(r) /\ Applied(r)
        /\ Bets[b].marketId = Markets[selected[r]].id
        /\ upd[r].id # Bets[b].marketId

\* C20: on a table whose ids are all decimal numerals, the step that answers
\* a request returns "1" when the table is empty and otherwise the numeral of
\* the largest id plus one, which is the id of no row; and the step in which
\* the write issued by an answered request runs leaves the returned nextId
\* different from the id of every row.
C20_FreshNextId ==
    [][\A r \in Reqs :
          LET nums == {n \in 0..MaxInt :
                          \E i \in 1..Len(Markets) : Markets[i].id = ToString(n)}
              numeric == \A i \in 1..Len(Markets) :
                            \E n \in 0..MaxInt : Markets[i].id = ToString(n)
          IN  /\ (/\ numeric
                  /\ pc[r] = "max" /\ pc'[r] = "done" /\ resp'[r].status = 200)
                 => /\ nums = {} => resp'[r].nextId = "1"
                    /\ nums # {} =>
                          \E m \in nums :
                              /\ \A n \in nums : n <= m
                              /\ resp'[r].nextId = ToString(m + 1)
                    /\ \A i \in 1..Len(Markets') :
                          Markets'[i].id # resp'[r].nextId
              /\ (/\ numeric
                  /\ resp[r].status = 200
                  /\ upd[r].state = "queued" /\ upd'[r].state # "queued"
                  /\ \A i \in 1..Len(Markets) : Markets[i].id # resp[r].nextId)
                 => \A i \in 1..Len(Markets') :
                       Markets'[i].id # resp'[r].nextId]_vars

\* A request was answered with the very id that its own write, which has
\* run since, carries for the row it selected.
C20_Witness ==
    \E r \in Reqs :
        /\ Picked(r) /\ Applied(r)
        /\ resp[r].status = 200
        /\ upd[r].id = resp[r].nextId
        /\ Len(Markets) = 2

=============================================================================
